---- MODULE Spec2Model ----
(***************************************************************************)
(* Model of src/main.py: a rendered DOM is parsed (lxml), every relevant   *)
(* element is projected to a record {content, id, class, attributes,       *)
(* xpath}, and the records are written as JSON to a file whose name is     *)
(* derived from the input file name and renumbered until it is free.       *)
(*                                                                         *)
(* Python str values are sequences of one-character strings; None is the   *)
(* one-element sequence <<"None">>, which no str equals.  XPath values are *)
(* rendered as TLA+ strings exactly as libxml2's xmlGetNodePath prints     *)
(* them.  The markup is modelled after tokenisation: a document is a       *)
(* sequence of start tags, end tags, character data and comments.          *)
(***************************************************************************)
EXTENDS Integers, Sequences, FiniteSets, TLC

VARIABLES
    dom_content,     \* main: the text read from the input file (token sequence)
    input_file_path, \* main: the path handed to write_json_to_file
    fs,              \* the file system: path |-> content of every existing file
    pc,              \* position of main: parse, iter, gen, write, done, error
    dom_tree,        \* parse_dom's result
    cursor,          \* extract_element_data: position of dom_tree.iter()
    elements_data,   \* extract_element_data: the records appended so far
    built,           \* the nodes an element_dict was computed for, in order
    counter,         \* generate_unique_filename: counter
    new_file_path,   \* generate_unique_filename: new_file_path
    opened,          \* write_json_to_file: the paths opened with mode 'w', in order
    calls_left       \* how many more times main is run on the same input

vars == <<dom_content, input_file_path, fs, pc, dom_tree, cursor, elements_data,
          built, counter, new_file_path, opened, calls_left>>

----------------------------------------------------------------------------
(* Bounds of the model *)

MaxTokens == 4

MaxCalls == 3

MaxExisting == 2

(* trim_text's default max_length *)
max_length == 100

----------------------------------------------------------------------------
(* Python values *)

None == <<"None">>

IsSpace(c) == c \in {" ", "\n", "\t"}

RECURSIVE LStrip(_)
LStrip(s) == IF s # <<>> /\ IsSpace(Head(s)) THEN LStrip(Tail(s)) ELSE s

RECURSIVE RStrip(_)
RStrip(s) ==
    IF s # <<>> /\ IsSpace(s[Len(s)]) THEN RStrip(SubSeq(s, 1, Len(s) - 1)) ELSE s

(* str.strip() *)
Strip(s) == RStrip(LStrip(s))

(* "s" * n *)
Rep(c, n) == [i \in 1..n |-> c]

(* str(n) of a non-negative integer *)
RECURSIVE Str(_)
Str(n) == IF n < 10 THEN <<ToString(n)>> ELSE Str(n \div 10) \o <<ToString(n % 10)>>

(* the largest index of c in s, 0 when there is none (str.rfind + 1) *)
RFind(s, c) ==
    LET hits == {i \in 1..Len(s) : s[i] = c}
    IN  IF hits = {} THEN 0 ELSE CHOOSE i \in hits : \A j \in hits : j <= i

----------------------------------------------------------------------------
(* Markup tokens *)

NoAttrib == [k \in {} |-> <<>>]

StartTag(tag, attrib) == [t |-> "start", tag |-> tag, attrib |-> attrib, data |-> <<>>]
EndTag(tag) == [t |-> "end", tag |-> tag, attrib |-> NoAttrib, data |-> <<>>]
CharData(data) == [t |-> "text", tag |-> "", attrib |-> NoAttrib, data |-> data]
CommentTok(data) == [t |-> "comment", tag |-> "", attrib |-> NoAttrib, data |-> data]

(* Tree nodes, kept in document order; parent is an index, 0 above the body *)
Node(kind, tag, attrib, text, parent) ==
    [kind |-> kind, tag |-> tag, attrib |-> attrib, text |-> text,
     tail |-> <<>>, parent |-> parent]

Children(nodes, p) == {i \in 1..Len(nodes) : nodes[i].parent = p}

MaxOf(S) == CHOOSE i \in S : \A j \in S : j <= i

MinOf(S) == CHOOSE i \in S : \A j \in S : i <= j

----------------------------------------------------------------------------
(* parse_dom: lxml.html.fromstring, then etree.ElementTree *)

(* libxml2's end-tag priorities: an end tag does not close through an open *)
(* element of higher priority                                              *)
EndPriority(tag) == IF tag = "div" THEN 150 ELSE 100

(* lxml.html.defs.block_tags *)
block_tags ==
    {"address", "blockquote", "center", "dir", "div", "dl", "fieldset", "form",
     "h1", "h2", "h3", "h4", "h5", "h6", "hr", "isindex", "menu", "noframes",
     "noscript", "ol", "p", "pre", "table", "ul"}

(* Elements that never have content: their start tag closes them at once *)
void_tags ==
    {"area", "base", "basefont", "br", "col", "embed", "frame", "hr", "img",
     "input", "isindex", "link", "meta", "param"}

(* The parser state before the first token: the implied body is node 1 and *)
(* the only open element                                                   *)
ParserStart ==
    [nodes |-> <<Node("element", "body", NoAttrib, <<>>, 0)>>, stack |-> <<1>>]

AppendText(st, data) ==
    LET cur  == st.stack[Len(st.stack)]
        kids == Children(st.nodes, cur)
    IN  IF kids = {}
        THEN [st EXCEPT !.nodes[cur].text = @ \o data]
        ELSE [st EXCEPT !.nodes[MaxOf(kids)].tail = @ \o data]

CloseTag(st, tag) ==
    LET open == {j \in 1..Len(st.stack) : st.nodes[st.stack[j]].tag = tag}
    IN  IF open = {}
        THEN st   \* unexpected end tag: dropped
        ELSE LET i == MaxOf(open)
                 blocked == \E j \in (i + 1)..Len(st.stack) :
                               EndPriority(st.nodes[st.stack[j]].tag) > EndPriority(tag)
             IN  IF blocked THEN st
                 ELSE [st EXCEPT !.stack = SubSeq(st.stack, 1, i - 1)]

ApplyToken(st, tok) ==
    LET cur == st.stack[Len(st.stack)]
        new == Len(st.nodes) + 1
    IN  CASE tok.t = "start" ->
               [nodes |-> Append(st.nodes, Node("element", tok.tag, tok.attrib, <<>>, cur)),
                stack |-> IF tok.tag \in void_tags THEN st.stack
                          ELSE Append(st.stack, new)]
          [] tok.t = "end" -> CloseTag(st, tok.tag)
          [] tok.t = "text" -> AppendText(st, tok.data)
          [] OTHER ->
               [st EXCEPT !.nodes = Append(@, Node("comment", "", NoAttrib, tok.data, cur))]

(* Elements still open at the end of the document are closed there *)
RECURSIVE ParseTokens(_, _)
ParseTokens(st, toks) ==
    IF toks = <<>> THEN st ELSE ParseTokens(ApplyToken(st, Head(toks)), Tail(toks))

contains_block_level_tags(nodes) ==
    \E i \in 1..Len(nodes) : nodes[i].kind = "element" /\ nodes[i].tag \in block_tags

(* html.fromstring raises ParserError("Document is empty") when the parser *)
(* builds no root at all                                                   *)
DocumentIsEmpty(doc) == doc = <<>>

(* html.fromstring on a document that is not a full html page: a body with *)
(* a single element and no text around it yields that element, any other   *)
(* body is renamed to div or span and returned itself.  ctx names the real *)
(* ancestors the returned element keeps in the parsed document.            *)
FromString(doc) ==
    LET nodes == ParseTokens(ParserStart, doc).nodes
        kids  == Children(nodes, 1)
        last  == MaxOf(kids)
    IN  IF /\ Cardinality(kids) = 1
           /\ Strip(nodes[1].text) = <<>>
           /\ Strip(nodes[last].tail) = <<>>
        THEN [nodes |-> nodes, root |-> last, ctx |-> <<"html", "body">>]
        ELSE [nodes |-> [nodes EXCEPT ![1].tag =
                            IF contains_block_level_tags(nodes) THEN "div" ELSE "span"],
              root |-> 1, ctx |-> <<"html">>]

NoTree == [nodes |-> <<>>, root |-> 0, ctx |-> <<>>]

RECURSIVE IsUnder(_, _, _)
IsUnder(nodes, i, r) ==
    \/ i = r
    \/ i > r /\ nodes[i].parent # 0 /\ IsUnder(nodes, nodes[i].parent, r)

(* dom_tree.iter(): the root's subtree in document order, comments included *)
RECURSIVE IterFrom(_, _)
IterFrom(tree, i) ==
    IF i > Len(tree.nodes) THEN <<>>
    ELSE (IF IsUnder(tree.nodes, i, tree.root) THEN <<i>> ELSE <<>>) \o IterFrom(tree, i + 1)

Iter(tree) == IterFrom(tree, 1)

----------------------------------------------------------------------------
(* extract_element_data *)

relevant_tags == {"div", "span", "a", "p", "ul", "li", "button", "input"}

(* a tag list that misses the form inputs *)
is_relevant_element_short(tag) == tag \in relevant_tags \ {"input"}

is_relevant_element(tag) == tag \in relevant_tags

(* isinstance(element, etree._Comment) or not is_relevant_element(element.tag) *)
Skipped(node) == node.kind = "comment" \/ ~is_relevant_element(node.tag)

(* trim_text cutting at max_length already *)
trim_text_at_limit(text) ==
    IF Len(text) >= max_length THEN SubSeq(text, 1, max_length) \o <<".", ".", ".">>
    ELSE text

trim_text(text) ==
    IF Len(text) > max_length THEN SubSeq(text, 1, max_length) \o <<".", ".", ".">>
    ELSE text

(* ''.join(element.itertext()): the element's text, then for every child in *)
(* document order its own text content (none for a comment) and its tail    *)
RECURSIVE IterText(_, _), KidsText(_, _, _)
IterText(nodes, e) == nodes[e].text \o KidsText(nodes, e, 1)
KidsText(nodes, p, from) ==
    LET kids == {k \in Children(nodes, p) : k >= from}
    IN  IF kids = {} THEN <<>>
        ELSE LET k == MinOf(kids)
             IN  (IF nodes[k].kind = "element" THEN IterText(nodes, k) ELSE <<>>)
                   \o nodes[k].tail \o KidsText(nodes, p, k + 1)

(* element.get(key, '') *)
GetOrEmpty(node, key) == IF key \in DOMAIN node.attrib THEN node.attrib[key] ELSE <<>>

(* element.get(key) *)
Get(node, key) == IF key \in DOMAIN node.attrib THEN node.attrib[key] ELSE None

kept_attributes == {"id", "class", "name", "href"}

(* dict(element.attrib) without the key filter *)
AttributesUnfiltered(node) == node.attrib

Attributes(node) ==
    [k \in (DOMAIN node.attrib) \cap kept_attributes |-> node.attrib[k]]

(* no index at all *)
OccurNever(nodes, e) == 0

(* the index printed for every element *)
OccurAlways(nodes, e) ==
    Cardinality({s \in Children(nodes, nodes[e].parent) :
                    nodes[s].kind = "element" /\ nodes[s].tag = nodes[e].tag /\ s < e}) + 1

(* a 0-based index *)
OccurZeroBased(nodes, e) ==
    Cardinality({s \in Children(nodes, nodes[e].parent) :
                    nodes[s].kind = "element" /\ nodes[s].tag = nodes[e].tag /\ s < e})

(* The index xmlGetNodePath prints for an element: its 1-based position     *)
(* among the sibling elements of the same name, 0 (nothing printed) when it *)
(* has no such sibling                                                      *)
Occur(nodes, e) ==
    LET same == {s \in Children(nodes, nodes[e].parent) :
                    nodes[s].kind = "element" /\ nodes[s].tag = nodes[e].tag}
        prev == {s \in same : s < e}
        next == {s \in same : s > e}
    IN  IF prev = {} THEN (IF next = {} THEN 0 ELSE 1) ELSE Cardinality(prev) + 1

StepOf(nodes, e) ==
    "/" \o nodes[e].tag \o
        (IF Occur(nodes, e) = 0 THEN "" ELSE "[" \o ToString(Occur(nodes, e)) \o "]")

(* The path of an element below the context node of the ElementTree: the    *)
(* context node stands in as the document's only child                      *)
RECURSIVE PathBelow(_, _)
PathBelow(tree, e) ==
    IF e = tree.root THEN "/" \o tree.nodes[e].tag
    ELSE PathBelow(tree, tree.nodes[e].parent) \o StepOf(tree.nodes, e)

RECURSIVE JoinSteps(_)
JoinSteps(tags) == IF tags = <<>> THEN "" ELSE "/" \o Head(tags) \o JoinSteps(Tail(tags))

(* dom_tree.getpath(element).  For the context node itself the path is      *)
(* taken either below the stand-in document or through the ancestors the    *)
(* node keeps in the parsed document, depending on the lxml build.          *)
GetPath(tree, e) ==
    IF e = tree.root
    THEN {"/" \o tree.nodes[e].tag, JoinSteps(tree.ctx) \o "/" \o tree.nodes[e].tag}
    ELSE {PathBelow(tree, e)}

ElementDict(tree, e, xpath) ==
    [content    |-> trim_text(Strip(IterText(tree.nodes, e))),
     id         |-> Get(tree.nodes[e], "id"),
     class      |-> Get(tree.nodes[e], "class"),
     attributes |-> Attributes(tree.nodes[e]),
     xpath      |-> xpath]

----------------------------------------------------------------------------
(* write_json_to_file, generate_unique_filename *)

(* the extension taken from the first dot *)
splitext_first_dot(p) ==
    LET dots == {i \in 1..Len(p) : p[i] = "."}
    IN  IF dots = {} THEN <<p, <<>> >>
        ELSE <<SubSeq(p, 1, MinOf(dots) - 1), SubSeq(p, MinOf(dots), Len(p))>>

(* os.path.splitext *)
splitext(p) ==
    LET sepIndex == RFind(p, "/")
        dotIndex == RFind(p, ".")
    IN  IF dotIndex > sepIndex /\ \E i \in (sepIndex + 1)..(dotIndex - 1) : p[i] # "."
        THEN <<SubSeq(p, 1, dotIndex - 1), SubSeq(p, dotIndex, Len(p))>>
        ELSE <<p, <<>> >>

(* f"{base_name}_{counter}.{extension}" *)
NumberedPath(base_name, n, extension) ==
    base_name \o <<"_">> \o Str(n) \o <<".">> \o extension

json_ext == <<"j", "s", "o", "n">>

CandidatePath(file_path, n) == NumberedPath(splitext(file_path)[1], n, json_ext)

(* an existence test that never sees the file *)
PathExistsNever(files, p) == FALSE

(* os.path.exists *)
PathExists(files, p) == p \in DOMAIN files

(* json.dumps(elements_data, indent=4): the text is determined by the list *)
JsonDumps(data) == [json |-> data]

WriteFile(files, p, content) ==
    [q \in (DOMAIN files) \cup {p} |-> IF q = p THEN content ELSE files[q]]

----------------------------------------------------------------------------
(* The inputs: documents, input paths and the files present at the start *)

StructTags == {"div", "span", "b"}

StructTokens ==
    {StartTag(tg, NoAttrib) : tg \in StructTags} \cup {EndTag(tg) : tg \in StructTags}
        \cup {CharData(<<"x">>), CommentTok(<<"c">>)}

(* Every token sequence of at most MaxTokens tokens that opens with a start *)
(* tag: nesting, siblings, unclosed and stray end tags, text and comments   *)
StructDocs ==
    {d \in UNION {[1..n -> StructTokens] : n \in 1..MaxTokens} : d[1].t = "start"}

(* One element of every relevant tag and of some others *)
TagDocs ==
    {<<StartTag(tg, NoAttrib)>> : tg \in relevant_tags \cup {"h1", "table", "em"}}

AttrNames == kept_attributes \cup {"title"}

AttrValues == {<<>>, <<" ", "A", " ">>}

AttrDocs ==
    {<<StartTag("a", at)>> : at \in UNION {[S -> AttrValues] : S \in SUBSET AttrNames}}

TextPieces ==
    {<<>>, <<" ">>, <<"a">>, <<" ">> \o Rep("b", max_length \div 2 - 1) \o <<"\n">>,
     Rep("c", max_length \div 2), Rep("d", max_length), Rep("e", max_length + 1)}

TextTok(data) == IF data = <<>> THEN <<>> ELSE <<CharData(data)>>

(* <div>T1<span>T2</span><!--c-->T3</div> *)
TextDocs ==
    {<<StartTag("div", NoAttrib)>> \o TextTok(t1) \o <<StartTag("span", NoAttrib)>>
        \o TextTok(t2) \o <<EndTag("span"), CommentTok(<<"c">>)>> \o TextTok(t3)
        \o <<EndTag("div")>> : t1 \in TextPieces, t2 \in TextPieces, t3 \in TextPieces}

(* <div id="a"><span>Hi</span><span>Bye</span></div> *)
ScenarioDoc ==
    <<StartTag("div", [k \in {"id"} |-> <<"a">>]),
      StartTag("span", NoAttrib), CharData(<<"H", "i">>), EndTag("span"),
      StartTag("span", NoAttrib), CharData(<<"B", "y", "e">>), EndTag("span"),
      EndTag("div")>>

EmptyDoc == <<>>

Docs == StructDocs \cup TagDocs \cup AttrDocs \cup TextDocs \cup {ScenarioDoc, EmptyDoc}

(* main's input_file_path *)
MainPath == <<"d", "o", "m", "1", ".", "t", "x", "t">>

Paths ==
    {MainPath, <<"d", "o", "m", "1">>, <<".", "d", "o", "m">>,
     <<"a", ".", "b", "/", "d", "o", "m">>, <<"d", ".", "o", ".", "m">>}

(* The names a run may find taken: the unnumbered name and the first numbered ones *)
TakenNames(path) ==
    {splitext(path)[1] \o <<".">> \o json_ext}
        \cup {CandidatePath(path, k) : k \in 1..MaxExisting}

OldContent == JsonDumps(<<>>)

----------------------------------------------------------------------------
(* The state machine of main *)

Init ==
    /\ \/ /\ dom_content \in Docs
          /\ input_file_path = MainPath
          /\ fs = [q \in {} |-> OldContent]
          /\ calls_left = 0
       \/ /\ dom_content = ScenarioDoc
          /\ input_file_path \in Paths
          /\ \E S \in SUBSET TakenNames(input_file_path) : fs = [q \in S |-> OldContent]
          /\ calls_left = MaxCalls - 1
    /\ pc = "parse"
    /\ dom_tree = NoTree
    /\ cursor = 0
    /\ elements_data = <<>>
    /\ built = <<>>
    /\ counter = 0
    /\ new_file_path = <<>>
    /\ opened = <<>>

(* parse_dom returns a tree; extract_element_data starts its loop *)
ParseDom ==
    /\ pc = "parse"
    /\ ~DocumentIsEmpty(dom_content)
    /\ dom_tree' = FromString(dom_content)
    /\ cursor' = 1
    /\ elements_data' = <<>>
    /\ built' = <<>>
    /\ pc' = "iter"
    /\ UNCHANGED <<dom_content, input_file_path, fs, counter, new_file_path, opened,
                   calls_left>>

(* parse_dom raises ParserError, which main does not catch *)
ParseDomRaises ==
    /\ pc = "parse"
    /\ DocumentIsEmpty(dom_content)
    /\ pc' = "error"
    /\ UNCHANGED <<dom_content, input_file_path, fs, dom_tree, cursor, elements_data,
                   built, counter, new_file_path, opened, calls_left>>

(* the loop body's continue *)
IterSkip ==
    /\ pc = "iter"
    /\ cursor <= Len(Iter(dom_tree))
    /\ Skipped(dom_tree.nodes[Iter(dom_tree)[cursor]])
    /\ cursor' = cursor + 1
    /\ UNCHANGED <<dom_content, input_file_path, fs, pc, dom_tree, elements_data,
                   built, counter, new_file_path, opened, calls_left>>

(* the loop body builds element_dict and appends it *)
IterKeep ==
    /\ pc = "iter"
    /\ cursor <= Len(Iter(dom_tree))
    /\ LET e == Iter(dom_tree)[cursor]
       IN  /\ ~Skipped(dom_tree.nodes[e])
           /\ \E xpath \in GetPath(dom_tree, e) :
                 elements_data' = Append(elements_data, ElementDict(dom_tree, e, xpath))
           /\ built' = Append(built, e)
    /\ cursor' = cursor + 1
    /\ UNCHANGED <<dom_content, input_file_path, fs, pc, dom_tree, counter,
                   new_file_path, opened, calls_left>>

(* extract_element_data returns; write_json_to_file calls                   *)
(* generate_unique_filename, which sets counter and its first candidate     *)
IterDone ==
    /\ pc = "iter"
    /\ cursor > Len(Iter(dom_tree))
    /\ counter' = 1
    /\ new_file_path' = CandidatePath(input_file_path, 1)
    /\ pc' = "gen"
    /\ UNCHANGED <<dom_content, input_file_path, fs, dom_tree, cursor, elements_data,
                   built, opened, calls_left>>

(* while os.path.exists(new_file_path) *)
GenLoop ==
    /\ pc = "gen"
    /\ PathExists(fs, new_file_path)
    /\ counter' = counter + 1
    /\ new_file_path' = CandidatePath(input_file_path, counter + 1)
    /\ UNCHANGED <<dom_content, input_file_path, fs, pc, dom_tree, cursor,
                   elements_data, built, opened, calls_left>>

(* return new_file_path *)
GenReturn ==
    /\ pc = "gen"
    /\ ~PathExists(fs, new_file_path)
    /\ pc' = "write"
    /\ UNCHANGED <<dom_content, input_file_path, fs, dom_tree, cursor, elements_data,
                   built, counter, new_file_path, opened, calls_left>>

(* open(json_file_path, 'w') and write *)
WriteJson ==
    /\ pc = "write"
    /\ fs' = WriteFile(fs, new_file_path, JsonDumps(elements_data))
    /\ opened' = Append(opened, new_file_path)
    /\ pc' = "done"
    /\ UNCHANGED <<dom_content, input_file_path, dom_tree, cursor, elements_data,
                   built, counter, new_file_path, calls_left>>

(* the script is run again on the same input file *)
RunAgain ==
    /\ pc = "done"
    /\ calls_left > 0
    /\ calls_left' = calls_left - 1
    /\ pc' = "parse"
    /\ dom_tree' = NoTree
    /\ cursor' = 0
    /\ elements_data' = <<>>
    /\ built' = <<>>
    /\ counter' = 0
    /\ new_file_path' = <<>>
    /\ UNCHANGED <<dom_content, input_file_path, fs, opened>>

Next ==
    \/ ParseDom
    \/ ParseDomRaises
    \/ IterSkip
    \/ IterKeep
    \/ IterDone
    \/ GenLoop
    \/ GenReturn
    \/ WriteJson
    \/ RunAgain

Spec == Init /\ [][Next]_vars

----------------------------------------------------------------------------
(* Properties *)

Records == 1..Len(elements_data)

(* the node the j-th record was built from *)
NodeOf(j) == dom_tree.nodes[built[j]]

Finished == pc \in {"gen", "write", "done"}

(* C1: write_json_to_file never overwrites an existing file: the path it    *)
(* opens for writing does not exist, and every step leaves every existing   *)
(* file in place with the content it had.                                   *)
C1_NeverOverwrites ==
    [][/\ pc = "write" => new_file_path \notin DOMAIN fs
       /\ \A p \in DOMAIN fs : p \in DOMAIN fs' /\ fs'[p] = fs[p]]_vars

(* a later run has written its file next to older files it had to step over *)
C1_Witness ==
    /\ pc = "done"
    /\ Len(opened) >= 2
    /\ counter >= 3
    /\ \E p \in DOMAIN fs : fs[p] = OldContent
    /\ \E p \in DOMAIN fs : fs[p] # OldContent

(* C2: the traversal visits each element at most once, and two distinct     *)
(* elements of a tree never get the same xpath value in their records.      *)
C2_UniquePaths ==
    /\ Len(built) = Len(elements_data)
    /\ \A i \in Records : \A j \in Records :
          i # j => /\ built[i] # built[j]
                   /\ elements_data[i].xpath # elements_data[j].xpath

(* two kept siblings with the same tag, and a kept element nested in a kept *)
(* element of its own tag                                                   *)
C2_Witness ==
    /\ pc = "done"
    /\ \E i \in Records : \E j \in Records :
          /\ i # j
          /\ NodeOf(i).tag = NodeOf(j).tag
          /\ NodeOf(i).parent = NodeOf(j).parent
    /\ \E i \in Records : \E j \in Records :
          /\ NodeOf(j).parent = built[i]
          /\ NodeOf(i).tag = NodeOf(j).tag

(* the sibling elements of e (e included) that carry e's tag *)
SameTag(nodes, e) ==
    {s \in 1..Len(nodes) : /\ nodes[s].parent = nodes[e].parent
                           /\ nodes[s].kind = "element"
                           /\ nodes[s].tag = nodes[e].tag}

BareStep(nodes, e) == "/" \o nodes[e].tag

(* the step with e's 1-based index among its same-tag siblings in document order *)
IndexedStep(nodes, e) ==
    "/" \o nodes[e].tag \o "["
        \o ToString(Cardinality({s \in SameTag(nodes, e) : s <= e})) \o "]"

RECURSIVE IndexedPath(_, _)
IndexedPath(tree, e) ==
    IF e = tree.root THEN "/" \o tree.nodes[e].tag \o "[1]"
    ELSE IndexedPath(tree, tree.nodes[e].parent) \o IndexedStep(tree.nodes, e)

RECURSIVE PathFromRoot(_, _)
PathFromRoot(tree, e) ==
    IF e = tree.root THEN BareStep(tree.nodes, e)
    ELSE PathFromRoot(tree, tree.nodes[e].parent)
           \o (IF Cardinality(SameTag(tree.nodes, e)) > 1
               THEN IndexedStep(tree.nodes, e) ELSE BareStep(tree.nodes, e))

TrimmedText(j) == Strip(IterText(dom_tree.nodes, built[j]))

(* C4: content is the stripped text T itself when len(T) <= 100, and the    *)
(* first 100 characters of T followed by '...' (length 103) when longer.    *)
C4_Truncation ==
    \A j \in Records :
        LET T == TrimmedText(j)
            c == elements_data[j].content
        IN  IF Len(T) > 100
            THEN /\ Len(c) = 103
                 /\ SubSeq(c, 1, 100) = SubSeq(T, 1, 100)
                 /\ SubSeq(c, 101, 103) = <<".", ".", ".">>
            ELSE c = T

(* one document with a text of exactly 100 characters and a text of more    *)
(* than 100 from which stripping removed something                          *)
C4_Witness ==
    /\ pc = "done"
    /\ \E j \in Records : Len(TrimmedText(j)) = 100
    /\ \E j \in Records :
          /\ Len(TrimmedText(j)) > 100
          /\ IterText(dom_tree.nodes, built[j]) # TrimmedText(j)
          /\ Len(elements_data[j].content) = 103

(* C5: the keys of 'attributes' are exactly the element's attribute names   *)
(* among id, class, name, href, each with the element's value unchanged.    *)
C5_AttributeProjection ==
    \A j \in Records :
        /\ DOMAIN elements_data[j].attributes =
              (DOMAIN NodeOf(j).attrib) \cap {"id", "class", "name", "href"}
        /\ \A k \in DOMAIN elements_data[j].attributes :
              elements_data[j].attributes[k] = NodeOf(j).attrib[k]

(* an element with a dropped attribute and a kept one whose value has outer *)
(* blanks and an upper-case letter                                          *)
C5_Witness ==
    /\ pc = "done"
    /\ \E j \in Records :
          /\ "title" \in DOMAIN NodeOf(j).attrib
          /\ "href" \in DOMAIN NodeOf(j).attrib
          /\ elements_data[j].attributes["href"] = <<" ", "A", " ">>

KeptNode(i) ==
    /\ dom_tree.nodes[i].kind = "element"
    /\ dom_tree.nodes[i].tag \in {"div", "span", "a", "p", "ul", "li", "button", "input"}

(* C6: the records built are exactly those of the visited elements with a   *)
(* relevant tag, one each, in document order (a parent before its children, *)
(* siblings in their order); nothing is built for a comment or for an       *)
(* element with another tag.                                                *)
C6_OneRecordPerRelevant ==
    pc \in {"iter", "gen", "write", "done"} =>
        /\ built = SelectSeq(SubSeq(Iter(dom_tree), 1, cursor - 1), KeptNode)
        /\ Len(elements_data) = Len(built)
        /\ \A i \in Records : \A j \in Records :
              /\ NodeOf(j).parent = built[i] => i < j
              /\ (i < j /\ NodeOf(i).parent = NodeOf(j).parent) => built[i] < built[j]

(* a finished traversal that met a comment and an element with another tag  *)
(* and built two records                                                    *)
C6_Witness ==
    /\ pc = "done"
    /\ Len(built) >= 2
    /\ \E i \in 1..Len(Iter(dom_tree)) : dom_tree.nodes[Iter(dom_tree)[i]].kind = "comment"
    /\ \E i \in 1..Len(Iter(dom_tree)) : dom_tree.nodes[Iter(dom_tree)[i]].tag = "b"

(* C7 as claimed: parse_dom followed by extract_element_data never fails,   *)
(* whatever the input.                                                      *)
C7_NeverRaises == pc # "error"

(* C8: 'id' is None exactly when the element has no id attribute and is the *)
(* empty string when the attribute is present and empty, the same for       *)
(* 'class'; an element with none of id, class, name, href has an empty      *)
(* 'attributes' mapping and None for both.                                  *)
C8_AbsentIsNone ==
    \A j \in Records :
        /\ \A k \in {"id", "class"} :
              LET v == IF k = "id" THEN elements_data[j].id ELSE elements_data[j].class
              IN  /\ v = None <=> k \notin DOMAIN NodeOf(j).attrib
                  /\ (k \in DOMAIN NodeOf(j).attrib /\ NodeOf(j).attrib[k] = <<>>) => v = <<>>
        /\ (DOMAIN NodeOf(j).attrib) \cap {"id", "class", "name", "href"} = {} =>
              /\ DOMAIN elements_data[j].attributes = {}
              /\ elements_data[j].id = None
              /\ elements_data[j].class = None

(* an element whose id is present and empty while its class is missing *)
C8_Witness ==
    /\ pc = "done"
    /\ \E j \in Records :
          /\ "id" \in DOMAIN NodeOf(j).attrib
          /\ NodeOf(j).attrib["id"] = <<>>
          /\ "class" \notin DOMAIN NodeOf(j).attrib
          /\ elements_data[j].id = <<>>
          /\ elements_data[j].class = None

(* C9 as claimed: the two spans of the scenario get the paths               *)
(* [div#1, span#1] and [div#1, span#2] with contents Hi and Bye.            *)
C9_ScenarioIndexedPaths ==
    (dom_content = ScenarioDoc /\ Finished) =>
        \E i \in Records : \E j \in Records :
            /\ elements_data[i].xpath = "/div[1]/span[1]"
            /\ elements_data[i].content = <<"H", "i">>
            /\ elements_data[j].xpath = "/div[1]/span[2]"
            /\ elements_data[j].content = <<"B", "y", "e">>

(* C9 amended: the two spans of the scenario get the paths /div/span[1] and *)
(* /div/span[2], the div step without an index, with contents Hi and Bye.   *)
C9_ScenarioPaths ==
    (dom_content = ScenarioDoc /\ Finished) =>
        /\ Cardinality({j \in Records : NodeOf(j).tag = "span"}) = 2
        /\ \E i \in Records : \E j \in Records :
            /\ i < j
            /\ NodeOf(i).tag = "span"
            /\ elements_data[i].xpath = "/div/span[1]"
            /\ elements_data[i].content = <<"H", "i">>
            /\ NodeOf(j).tag = "span"
            /\ elements_data[j].xpath = "/div/span[2]"
            /\ elements_data[j].content = <<"B", "y", "e">>

C9_Witness == dom_content = ScenarioDoc /\ pc = "done" /\ Len(elements_data) = 3

(* the input path without its extension, for the paths of the model *)
ExpectedBase(path) ==
    CASE path = <<"d", "o", "m", "1", ".", "t", "x", "t">> -> <<"d", "o", "m", "1">>
      [] path = <<"d", ".", "o", ".", "m">> -> <<"d", ".", "o">>
      [] OTHER -> path

ExpectedName(path, k) ==
    ExpectedBase(path) \o <<"_", ToString(k), ".", "j", "s", "o", "n">>

Unsuffixed(path) == ExpectedBase(path) \o <<".", "j", "s", "o", "n">>

Range(f) == {f[i] : i \in DOMAIN f}

C10_SmallestFree ==
    pc = "write" =>
        /\ counter >= 1
        /\ new_file_path = ExpectedName(input_file_path, counter)
        /\ new_file_path \notin DOMAIN fs
        /\ new_file_path # Unsuffixed(input_file_path)
        /\ \A k \in 1..(counter - 1) : ExpectedName(input_file_path, k) \in DOMAIN fs

C10_InOrder ==
    (DOMAIN fs \ Range(opened)) \subseteq {Unsuffixed(input_file_path)} =>
        \A i \in 1..Len(opened) : opened[i] = ExpectedName(input_file_path, i)

(* the loop can always take its next step, and its counter, which every    *)
(* iteration raises by one, never passes the number of files by more than 1 *)
C10_LoopBounded ==
    pc = "gen" =>
        /\ counter \in 1..(Cardinality(DOMAIN fs) + 1)
        /\ ENABLED (GenLoop \/ GenReturn)

(* C10: generate_unique_filename terminates and returns <base>_<k>.json for *)
(* the smallest k >= 1 whose name is free, never the unnumbered name; so    *)
(* successive calls that start without numbered files create <base>_1.json, *)
(* <base>_2.json, ... in that order.                                        *)
C10_UniqueFilename == C10_SmallestFree /\ C10_InOrder /\ C10_LoopBounded

(* three runs that found only the unnumbered name taken *)
C10_Witness ==
    /\ pc = "done"
    /\ Len(opened) >= 3
    /\ DOMAIN fs \ Range(opened) = {Unsuffixed(input_file_path)}

====
